---------------------------- MODULE Spec2Model ----------------------------
(***************************************************************************)
(* A model of flatblocks/templatetags/flatblock_tags.py: the parser of the *)
(* 'flatblock' / 'plain_flatblock' template tags (BasicFlatBlockWrapper,   *)
(* PlainFlatBlockWrapper) and the render step of the node they build       *)
(* (FlatBlockNode.render) over the content table and the cache.            *)
(*                                                                         *)
(* Strings are sequences of one-character strings, so that the quote test, *)
(* the slice [1:-1], int() and string concatenation are computed as the    *)
(* code computes them.  Python values whose type matters carry a type tag. *)
(***************************************************************************)
EXTENDS Integers, Sequences, FiniteSets, TLC

VARIABLES wrapper, thr, db, cache, autocreate, last

vars == <<wrapper, thr, db, cache, autocreate, last>>

---------------------------------------------------------------------------
(* Bounds of the model. *)

\* the longest argument list (the tokens after the slug) a parsed tag carries
MaxArgs == 5

\* the largest {timeout}, in seconds, of a rendered tag
MaxTimeout == 1

---------------------------------------------------------------------------
(* Python values. *)

PyNone == [t |-> "NoneType", v |-> <<>>]
PyUnset == [t |-> "unset", v |-> <<>>]
PyStr(s) == [t |-> "str", v |-> s]
PyInt(n) == [t |-> "int", v |-> n]
PyBool(b) == [t |-> "bool", v |-> b]
\* template.Variable(name)
PyVariable(name) == [t |-> "Variable", v |-> name]

\* Python's ==, which is False across these types
PyEq(a, b) == a.t = b.t /\ a.v = b.v

IsTrue(x) == x.t = "bool" /\ x.v

---------------------------------------------------------------------------
(* String literals of the source. *)

SQ == "'"
DQ == "\""
Quotes == {SQ, DQ}

USING == <<"u", "s", "i", "n", "g">>
EVALUATED == <<"e", "v", "a", "l", "u", "a", "t", "e", "d">>
NONE == <<"N", "o", "n", "e">>

\* 'flatblocks/flatblock.html', one symbol
DEFAULT_TEMPLATE == <<"flatblocks/flatblock.html">>

\* the two registered tag names, one symbol each
TAG_FLATBLOCK == <<"flatblock">>
TAG_PLAIN == <<"plain_flatblock">>

---------------------------------------------------------------------------
(* int(): an optional sign followed by decimal digits. *)

Digits == {"0", "1", "2", "3", "4", "5", "6", "7", "8", "9"}

DigitVal(c) ==
    CASE c = "0" -> 0 [] c = "1" -> 1 [] c = "2" -> 2 [] c = "3" -> 3
      [] c = "4" -> 4 [] c = "5" -> 5 [] c = "6" -> 6 [] c = "7" -> 7
      [] c = "8" -> 8 [] c = "9" -> 9

RECURSIVE DigitsVal(_)
DigitsVal(s) ==
    IF s = <<>> THEN 0
    ELSE 10 * DigitsVal(SubSeq(s, 1, Len(s) - 1)) + DigitVal(s[Len(s)])

Unsigned(s) == IF Len(s) >= 1 /\ s[1] \in {"+", "-"} THEN Tail(s) ELSE s

\* int(s) does not raise ValueError
IsIntLiteral(s) ==
    /\ Len(Unsigned(s)) >= 1
    /\ \A i \in 1..Len(Unsigned(s)) : Unsigned(s)[i] \in Digits

IntOf(s) ==
    IF s[1] = "-" THEN 0 - DigitsVal(Unsigned(s)) ELSE DigitsVal(Unsigned(s))

---------------------------------------------------------------------------
(* BasicFlatBlockWrapper.prepare, statement by statement.  Each step maps  *)
(* the wrapper's attributes to the attributes after it and the exception   *)
(* it raised ("" when none).                                               *)

Fields == {"is_variable", "tpl_is_variable", "slug", "cache_time",
           "tpl_name", "evaluated"}

\* a wrapper object on which prepare never ran: it has no attribute yet
NewWrapper == [f \in Fields |-> PyUnset]

Ok(self) == [self |-> self, exc |-> ""]
Raise(self, e) == [self |-> self, exc |-> e]

\* s[0] == s[-1] and s[0] in ('"', "'")
QuotedTest(s) == s[1] = s[Len(s)] /\ s[1] \in Quotes

\* s[1:-1]
Strip(s) == SubSeq(s, 2, Len(s) - 1)

PrepReset(self) ==
    Ok([self EXCEPT !.is_variable = PyBool(FALSE),
                    !.tpl_is_variable = PyBool(FALSE),
                    !.slug = PyNone,
                    !.cache_time = PyInt(0),
                    !.tpl_name = PyNone,
                    !.evaluated = PyBool(FALSE)])

\* tag_name, self.slug, args = tokens[0], tokens[1], tokens[2:]
PrepSplit(self, tokens) ==
    IF Len(tokens) < 2 THEN Raise(self, "IndexError")
    ELSE Ok([self EXCEPT !.slug = PyStr(tokens[2])])

ArgsOf(tokens) == SubSeq(tokens, 3, Len(tokens))

PrepArgs(self, args) ==
    LET num_args == Len(args) IN
    CASE num_args = 0 -> Ok(self)
      [] num_args = 1 ->
           IF args[1] = EVALUATED
           THEN Ok([self EXCEPT !.evaluated = PyBool(TRUE)])
           ELSE Ok([self EXCEPT !.cache_time = PyStr(args[1])])
      [] num_args = 2 ->
           IF args[1] # USING
           THEN IF args[2] # EVALUATED
                THEN Raise(self, "TemplateSyntaxError")
                ELSE Ok([self EXCEPT !.cache_time = PyStr(args[1]),
                                     !.evaluated = PyBool(TRUE)])
           ELSE Ok([self EXCEPT !.tpl_name = PyStr(args[2])])
      [] num_args = 3 ->
           LET s1 == IF args[1] = EVALUATED
                     THEN [self EXCEPT !.evaluated = PyBool(TRUE)]
                     ELSE [self EXCEPT !.cache_time = PyStr(args[1])]
           IN Ok([s1 EXCEPT !.tpl_name = PyStr(args[3])])
      [] num_args = 4 ->
           Ok([self EXCEPT !.cache_time = PyStr(args[1]),
                           !.evaluated = PyBool(TRUE),
                           !.tpl_name = PyStr(args[4])])
      [] OTHER -> Raise(self, "TemplateSyntaxError")

\* subscripting None raises TypeError, subscripting '' raises IndexError
SubscriptError(x) ==
    IF x.t # "str" THEN "TypeError"
    ELSE IF x.v = <<>> THEN "IndexError" ELSE ""

PrepSlug(self) ==
    IF SubscriptError(self.slug) # "" THEN Raise(self, SubscriptError(self.slug))
    ELSE IF ~QuotedTest(self.slug.v)
         THEN Ok([self EXCEPT !.is_variable = PyBool(TRUE)])
         ELSE Ok([self EXCEPT !.slug = PyStr(Strip(self.slug.v))])

PrepTpl(self) ==
    IF PyEq(self.tpl_name, PyNone) THEN Ok(self)
    ELSE IF SubscriptError(self.tpl_name) # ""
         THEN Raise(self, SubscriptError(self.tpl_name))
    ELSE IF ~QuotedTest(self.tpl_name.v)
         THEN Ok([self EXCEPT !.tpl_is_variable = PyBool(TRUE)])
         ELSE Ok([self EXCEPT !.tpl_name = PyStr(Strip(self.tpl_name.v))])

PrepCacheTime(self) ==
    IF PyEq(self.cache_time, PyNone) \/ PyEq(self.cache_time, PyStr(NONE))
    THEN Ok(self)
    ELSE IF self.cache_time.t = "int" THEN Ok(self)
    ELSE IF self.cache_time.t = "str" /\ IsIntLiteral(self.cache_time.v)
         THEN Ok([self EXCEPT !.cache_time = PyInt(IntOf(self.cache_time.v))])
         ELSE Raise(self, IF self.cache_time.t = "str" THEN "ValueError"
                          ELSE "TypeError")

Then(r, F(_)) == IF r.exc # "" THEN r ELSE F(r.self)

prepare(self, tokens) ==
    LET r1 == PrepReset(self)
        r2 == Then(r1, LAMBDA s : PrepSplit(s, tokens))
        r3 == Then(r2, LAMBDA s : PrepArgs(s, ArgsOf(tokens)))
        r4 == Then(r3, PrepSlug)
        r5 == Then(r4, PrepTpl)
    IN Then(r5, PrepCacheTime)

---------------------------------------------------------------------------
(* FlatBlockNode.__init__ and the two __call__ methods. *)

FlatBlockNode(slug, is_variable, cache_time, with_template, template_name, tpl_is_variable, evaluated) ==
    [template_name |->
         IF PyEq(template_name, PyNone) THEN PyStr(DEFAULT_TEMPLATE)
         ELSE IF IsTrue(tpl_is_variable) THEN PyVariable(template_name.v)
         ELSE template_name,
     slug |-> slug,
     is_variable |-> is_variable,
     cache_time |-> cache_time,
     with_template |-> with_template,
     evaluated |-> evaluated]

\* BasicFlatBlockWrapper.__call__, after prepare
BasicNode(self) ==
    FlatBlockNode(self.slug, self.is_variable, self.cache_time, PyBool(TRUE),
                  self.tpl_name, self.tpl_is_variable, self.evaluated)

\* PlainFlatBlockWrapper.__call__, after prepare
PlainNode(self) ==
    FlatBlockNode(self.slug, self.is_variable, self.cache_time, PyBool(FALSE),
                  PyNone, PyBool(FALSE), self.evaluated)

Wrappers == {"do_get_flatblock", "do_plain_flatblock"}

\* register.tag('flatblock', do_get_flatblock) and its sibling
Registered(tag_name) ==
    IF tag_name = TAG_PLAIN THEN "do_plain_flatblock" ELSE "do_get_flatblock"

Construct(w, self) ==
    IF w = "do_plain_flatblock" THEN PlainNode(self) ELSE BasicNode(self)

---------------------------------------------------------------------------
(* The result of compiling one tag. *)

NoNode == [template_name |-> PyUnset, slug |-> PyUnset,
           is_variable |-> PyUnset, cache_time |-> PyUnset,
           with_template |-> PyUnset, evaluated |-> PyUnset]

NoResult == [kind |-> "none", node |-> NoNode, exc |-> ""]
NodeResult(n) == [kind |-> "node", node |-> n, exc |-> ""]
RaiseResult(e) == [kind |-> "raise", node |-> NoNode, exc |-> e]

Threads == {"t1", "t2"}

\* no render since the last other step
NoRender == [kind |-> "none"]

Idle == [pc |-> "idle", tokens |-> <<>>, result |-> NoResult]

\* tag(parser, token) for the whole of one tag, by one thread alone
CallResult(self, tokens) ==
    LET r == prepare(self, tokens) IN
    IF r.exc # "" THEN RaiseResult(r.exc)
    ELSE NodeResult(Construct(Registered(tokens[1]), r.self))

Call(t) ==
    /\ thr[t].pc = "called"
    /\ LET tokens == thr[t].tokens
           w == Registered(tokens[1])
       IN /\ wrapper' = [wrapper EXCEPT ![w] = prepare(wrapper[w], tokens).self]
          /\ thr' = [thr EXCEPT ![t] = [pc |-> "done", tokens |-> tokens,
                                        result |-> CallResult(wrapper[w], tokens)]]
    /\ last' = NoRender
    /\ UNCHANGED <<db, cache, autocreate>>

---------------------------------------------------------------------------
(* Tags given to the parser. *)

\* what token.split_contents() can yield for the slug
SlugTokens == {<<SQ, "a", SQ>>, <<DQ, "b", DQ>>, <<"x">>, <<SQ, "a", DQ>>, <<SQ>>}

\* and for an argument
ArgTokens == {USING, EVALUATED, NONE, <<"1", "0">>, <<"-", "1">>,
              <<SQ, "T", SQ>>, <<"t">>}

RECURSIVE SeqsUpTo(_, _)
SeqsUpTo(S, n) ==
    IF n = 0 THEN {<<>>}
    ELSE LET shorter == SeqsUpTo(S, n - 1)
         IN shorter \cup {Append(s, x) : s \in {q \in shorter : Len(q) = n - 1},
                                         x \in S}

\* the token lists split_contents() yields: the tag name, then nothing (a bare
\* tag) or a slug and up to n further tokens
ParseInputs(n) ==
    {<<name>> \o rest : name \in {TAG_FLATBLOCK, TAG_PLAIN},
                        rest \in {<<>>} \cup
                            {<<s>> \o a : s \in SlugTokens,
                                          a \in SeqsUpTo(ArgTokens, n)}}

InitParse ==
    /\ wrapper = [w \in Wrappers |-> NewWrapper]
    /\ \E tokens \in ParseInputs(MaxArgs) :
          thr = [t \in Threads |->
                   IF t = "t1" THEN [pc |-> "called", tokens |-> tokens,
                                     result |-> NoResult]
                   ELSE Idle]
    /\ db = {}
    /\ cache = {}
    /\ autocreate = TRUE
    /\ last = NoRender

NextParse == \E t \in Threads : Call(t)

SpecParse == InitParse /\ [][NextParse]_vars

---------------------------------------------------------------------------
(* The collaborators of render: the render context, the template engine,   *)
(* the FlatBlock table and the cache.                                      *)

\* settings.CACHE_PREFIX, one symbol
CACHE_PREFIX == <<"flatblocks_">>

\* template.Variable(name).resolve(context), for a plain variable name
Resolve(name, context) ==
    IF name \in DOMAIN context THEN [ok |-> TRUE, v |-> context[name]]
    ELSE [ok |-> FALSE, v |-> <<>>]

\* the variable tags a content string may carry, one symbol each, and the
\* context variable each one prints
VarTags == {"{{v}}", "{{w}}"}
VarOf(c) == IF c = "{{v}}" THEN <<"v">> ELSE <<"w">>

\* template.Template(content).render(context): every variable tag is replaced
\* by the value of its variable, every other character is copied
RECURSIVE TemplateRender(_, _)
TemplateRender(content, context) ==
    IF content = <<>> THEN <<>>
    ELSE (IF Head(content) \in VarTags
          THEN (IF VarOf(Head(content)) \in DOMAIN context
                THEN context[VarOf(Head(content))] ELSE <<>>)
          ELSE <<Head(content)>>)
         \o TemplateRender(Tail(content), context)

\* FlatBlockNode._evaluate
Evaluate(content, context) == TemplateRender(content, context)

\* a row of the FlatBlock table
Row(slug, content, header) == [slug |-> slug, content |-> content, header |-> header]

NoRow == Row(<<>>, <<>>, <<>>)

\* FlatBlock.objects.get(slug=real_slug): the row, or DoesNotExist
ObjectsGet(table, slug) ==
    IF \E r \in table : r.slug = slug
    THEN [found |-> TRUE, row |-> CHOOSE r \in table : r.slug = slug]
    ELSE [found |-> FALSE, row |-> NoRow]

\* FlatBlock.objects.get_or_create(slug=real_slug, defaults={'content': real_slug});
\* the header of a new row is the column's default, the empty string
ObjectsGetOrCreate(table, slug) ==
    IF ObjectsGet(table, slug).found
    THEN [table |-> table, row |-> ObjectsGet(table, slug).row, created |-> FALSE]
    ELSE [table |-> table \cup {Row(slug, slug, <<>>)},
          row |-> Row(slug, slug, <<>>), created |-> TRUE]

\* the timeout of cache.set(key, value): the cache's default
DEFAULT_TIMEOUT == [t |-> "DEFAULT_TIMEOUT", v |-> <<>>]

\* cache.get(key): the value stored under key, or None
CacheGet(c, key) ==
    IF \E e \in c : e.key = key
    THEN [found |-> TRUE, row |-> (CHOOSE e \in c : e.key = key).value]
    ELSE [found |-> FALSE, row |-> NoRow]

\* cache.set(key, value, timeout): the value as it is at the call
CacheSet(c, key, value, timeout) ==
    {e \in c : e.key # key} \cup {[key |-> key, value |-> value, timeout |-> timeout]}

---------------------------------------------------------------------------
(* FlatBlockNode.render. *)

\* self.cache_time != 0
UsesCacheAlways(self) == TRUE

UsesCache(self) == ~PyEq(self.cache_time, PyInt(0))

\* flatblock is None, after the cache read
DatastoreAlways(got) == TRUE

NeedsDatastore(got) == ~got.found

\* the negation of: self.is_variable or not settings.AUTOCREATE_STATIC_BLOCKS
MayCreateBySettingOnly(self, setting) == setting

MayCreate(self, setting) == ~(IsTrue(self.is_variable) \/ ~setting)

\* the timeout render hands to cache.set
TimeoutAlwaysDefault(self) == DEFAULT_TIMEOUT

TimeoutFor(self) ==
    IF PyEq(self.cache_time, PyNone) \/ PyEq(self.cache_time, PyStr(NONE))
    THEN DEFAULT_TIMEOUT
    ELSE self.cache_time

\* the flatblock object render works on: the row's columns and, once
\* evaluated, the attributes raw_content and raw_header
Object(row) ==
    [slug |-> row.slug, content |-> row.content, header |-> row.header,
     raw_content |-> PyUnset, raw_header |-> PyUnset]

EvaluatedTwice(fb, context) ==
    [fb EXCEPT !.raw_content = PyStr(fb.content),
               !.raw_header = PyStr(fb.header),
               !.content = Evaluate(Evaluate(fb.content, context), context),
               !.header = Evaluate(Evaluate(fb.header, context), context)]

Evaluated(fb, context) ==
    [fb EXCEPT !.raw_content = PyStr(fb.content),
               !.raw_header = PyStr(fb.header),
               !.content = Evaluate(fb.content, context),
               !.header = Evaluate(fb.header, context)]

\* what render returns or raises
Returned(text) == [kind |-> "str", value |-> text, template |-> <<>>, context |-> <<>>]
Rendering(name, ctx) == [kind |-> "rendering", value |-> <<>>, template |-> name, context |-> ctx]
Raised(e) == [kind |-> "raise", value |-> <<e>>, template |-> <<>>, context |-> <<>>]

\* new_ctx.update({'flatblock': flatblock})
WithFlatblock(context, fb) ==
    [n \in DOMAIN context \cup {<<"flatblock">>} |->
        IF n = <<"flatblock">> THEN fb ELSE context[n]]

OutputAlwaysTemplate(self, real_template, fb, context) ==
    Rendering(real_template, WithFlatblock(context, fb))

\* lines 222-227: tmpl.render(new_ctx), or flatblock.content
Output(self, real_template, fb, context) ==
    IF IsTrue(self.with_template)
    THEN Rendering(real_template, WithFlatblock(context, fb))
    ELSE Returned(fb.content)

\* the state render leaves and what it did: out, the calls it made on the
\* cache, the table and the template engine in order (log), the row it
\* obtained (row, when got) and whether the cache supplied it (hit)
Outcome(table, c, out, log, got, row, hit) ==
    [db |-> table, cache |-> c, out |-> out, log |-> log,
     got |-> got, row |-> row, hit |-> hit]

\* lines 216-227, on the row obtained
Finish(self, context, real_template, table, c, log, row, hit) ==
    LET fb == IF IsTrue(self.evaluated) THEN Evaluated(Object(row), context)
              ELSE Object(row)
        log2 == log \o (IF IsTrue(self.evaluated) THEN <<"evaluate">> ELSE <<>>)
                    \o (IF IsTrue(self.with_template) THEN <<"get_template">> ELSE <<>>)
    IN Outcome(table, c, Output(self, real_template, fb, context), log2, TRUE, row, hit)

\* lines 191-229, after the cache read
Fetch(self, context, real_slug, real_template, table, c, log, got) ==
    IF ~NeedsDatastore(got)
    THEN Finish(self, context, real_template, table, c, log, got.row, TRUE)
    ELSE LET create == MayCreate(self, autocreate)
             r == IF create
                  THEN ObjectsGetOrCreate(table, real_slug)
                  ELSE [table |-> table, row |-> ObjectsGet(table, real_slug).row,
                        created |-> FALSE]
             log2 == log \o <<IF create THEN "get_or_create" ELSE "get">>
         IN IF ~create /\ ~ObjectsGet(table, real_slug).found
            THEN Outcome(table, c, Returned(<<>>), log2, FALSE, NoRow, FALSE)
            ELSE IF UsesCache(self)
                 THEN Finish(self, context, real_template, r.table,
                             CacheSet(c, CACHE_PREFIX \o real_slug, r.row, TimeoutFor(self)),
                             log2 \o <<"cache.set">>, r.row, FALSE)
                 ELSE Finish(self, context, real_template, r.table, c, log2, r.row, FALSE)

render(self, context, table, c) ==
    LET slug == IF IsTrue(self.is_variable) THEN Resolve(self.slug.v, context)
                ELSE [ok |-> TRUE, v |-> self.slug.v]
        tpl == IF self.template_name.t = "Variable"
               THEN Resolve(self.template_name.v, context)
               ELSE [ok |-> TRUE, v |-> self.template_name.v]
    IN IF ~slug.ok \/ ~tpl.ok
       THEN Outcome(table, c, Raised("VariableDoesNotExist"), <<>>, FALSE, NoRow, FALSE)
       ELSE IF UsesCache(self)
            THEN Fetch(self, context, slug.v, tpl.v, table, c, <<"cache.get">>,
                       CacheGet(c, CACHE_PREFIX \o slug.v))
            ELSE Fetch(self, context, slug.v, tpl.v, table, c, <<>>,
                       [found |-> FALSE, row |-> NoRow])

---------------------------------------------------------------------------
(* Compiling and rendering tags, while the table is edited and the cache   *)
(* drops entries.                                                          *)

\* the slugs of the table
Slugs == {<<"a">>, <<"b">>}

DigitChar(n) == CHOOSE c \in Digits : DigitVal(c) = n

TimeoutTokens == {NONE} \cup {<<DigitChar(n)>> : n \in 0..MaxTimeout}

\* the tags of the rendered templates: the documented configurations
RenderTags ==
    {<<n, b>> \o to \o ev \o tp :
        n \in {TAG_FLATBLOCK, TAG_PLAIN},
        b \in {<<SQ, "a", SQ>>, <<"x">>},
        to \in {<<>>} \cup {<<x>> : x \in TimeoutTokens},
        ev \in {<<>>, <<EVALUATED>>},
        tp \in {<<>>, <<USING, <<SQ, "T", SQ>>>>, <<USING, <<"t">>>>}}

\* the template's second tag, which caches the row of whatever slug x names
SecondTags ==
    {<<TAG_FLATBLOCK, <<"x">>, <<"1">>>>,
     <<TAG_FLATBLOCK, <<"x">>, NONE, EVALUATED>>}

Context(x, t, v) ==
    (<<"x">> :> x) @@ (<<"t">> :> t) @@ (<<"v">> :> v) @@ (<<"w">> :> <<"2">>)

\* the render contexts: x names a slug, t a template, v and w print text; the
\* last one defines neither x nor t
Contexts ==
    {Context(<<"a">>, <<"U">>, <<"1">>),
     Context(<<"b">>, <<"U">>, <<"{{w}}">>),
     (<<"v">> :> <<"{{w}}">>) @@ (<<"w">> :> <<"2">>)}

\* the rows an editor saves
EditedRows == {Row(s, <<"{{v}}">>, <<"{{v}}">>) : s \in Slugs}

\* node.render(context)
Render(t, context) ==
    /\ thr[t].pc = "done"
    /\ thr[t].result.kind = "node"
    /\ LET r == render(thr[t].result.node, context, db, cache)
       IN /\ db' = r.db
          /\ cache' = r.cache
          /\ last' = [kind |-> "render", tokens |-> thr[t].tokens,
                      node |-> thr[t].result.node,
                      context |-> context, pre_db |-> db, pre_cache |-> cache,
                      out |-> r.out, log |-> r.log, got |-> r.got,
                      row |-> r.row, hit |-> r.hit]
    /\ UNCHANGED <<wrapper, thr, autocreate>>

\* an editor saves a row
DbSave(row) ==
    /\ row \notin db
    /\ db' = {r \in db : r.slug # row.slug} \cup {row}
    /\ last' = NoRender
    /\ UNCHANGED <<wrapper, thr, cache, autocreate>>

\* an editor deletes a row
DbDelete(row) ==
    /\ row \in db
    /\ db' = db \ {row}
    /\ last' = NoRender
    /\ UNCHANGED <<wrapper, thr, cache, autocreate>>

\* a cache entry times out
CacheExpire(e) ==
    /\ e \in cache
    /\ cache' = cache \ {e}
    /\ last' = NoRender
    /\ UNCHANGED <<wrapper, thr, db, autocreate>>

\* the template holds two tags, compiled one after the other and then
\* rendered again and again
Init ==
    /\ wrapper = [w \in Wrappers |-> NewWrapper]
    /\ \E first \in RenderTags, second \in SecondTags :
          thr = [t \in Threads |->
                   [pc |-> "called",
                    tokens |-> IF t = "t1" THEN first ELSE second,
                    result |-> NoResult]]
    /\ db = {}
    /\ cache = {}
    /\ autocreate \in BOOLEAN
    /\ last = NoRender

Next ==
    \/ \E t \in Threads : Call(t)
    \/ \E t \in Threads, context \in Contexts : Render(t, context)
    \/ \E row \in EditedRows : DbSave(row)
    \/ \E row \in db : DbDelete(row)
    \/ \E e \in cache : CacheExpire(e)

Spec == Init /\ [][Next]_vars

---------------------------------------------------------------------------
(* Two threads compiling templates at once.  do_get_flatblock and          *)
(* do_plain_flatblock are module-level objects, so every thread's prepare  *)
(* writes the same attributes; a thread may be preempted between any two   *)
(* statements of prepare and __call__.                                     *)

\* the tags the threads compile
ThreadTags ==
    {<<TAG_FLATBLOCK, <<SQ, "a", SQ>>, <<"1">>>>,
     <<TAG_FLATBLOCK, <<"x">>, EVALUATED, USING, <<SQ, "T", SQ>>>>,
     <<TAG_FLATBLOCK, <<SQ, "a", SQ>>, <<"t">>, EVALUATED>>,
     <<TAG_PLAIN, <<SQ, "b", SQ>>, NONE>>}

WrapperOf(t) == Registered(thr[t].tokens[1])

\* one statement of prepare has run: the wrapper is as it left it, and the
\* thread goes on to the next statement or ends with the exception
Advance(t, r, next) ==
    /\ wrapper' = [wrapper EXCEPT ![WrapperOf(t)] = r.self]
    /\ thr' = [thr EXCEPT ![t] =
                 IF r.exc # ""
                 THEN [pc |-> "done", tokens |-> thr[t].tokens,
                       result |-> RaiseResult(r.exc)]
                 ELSE [pc |-> next, tokens |-> thr[t].tokens, result |-> NoResult]]
    /\ UNCHANGED <<db, cache, autocreate, last>>

\* lines 75-80
StepReset(t) ==
    /\ thr[t].pc = "called"
    /\ Advance(t, PrepReset(wrapper[WrapperOf(t)]), "split")

\* line 81
StepSplit(t) ==
    /\ thr[t].pc = "split"
    /\ Advance(t, PrepSplit(wrapper[WrapperOf(t)], thr[t].tokens), "args")

\* lines 82-121
StepArgs(t) ==
    /\ thr[t].pc = "args"
    /\ Advance(t, PrepArgs(wrapper[WrapperOf(t)], ArgsOf(thr[t].tokens)), "slug")

\* lines 123-126
StepSlug(t) ==
    /\ thr[t].pc = "slug"
    /\ Advance(t, PrepSlug(wrapper[WrapperOf(t)]), "tpl")

\* lines 128-133
StepTpl(t) ==
    /\ thr[t].pc = "tpl"
    /\ Advance(t, PrepTpl(wrapper[WrapperOf(t)]), "cache_time")

\* lines 134-135
StepCacheTime(t) ==
    /\ thr[t].pc = "cache_time"
    /\ Advance(t, PrepCacheTime(wrapper[WrapperOf(t)]), "construct")

\* lines 139-142, or 148-149: the node is built from the wrapper's attributes
StepConstruct(t) ==
    /\ thr[t].pc = "construct"
    /\ thr' = [thr EXCEPT ![t] =
                 [pc |-> "done", tokens |-> thr[t].tokens,
                  result |-> NodeResult(Construct(WrapperOf(t), wrapper[WrapperOf(t)]))]]
    /\ UNCHANGED <<wrapper, db, cache, autocreate, last>>

\* the thread goes on to its next tag
StepNextTag(t, tokens) ==
    /\ thr[t].pc = "done"
    /\ thr' = [thr EXCEPT ![t] = [pc |-> "called", tokens |-> tokens,
                                  result |-> NoResult]]
    /\ UNCHANGED <<wrapper, db, cache, autocreate, last>>

InitThreads ==
    /\ wrapper = [w \in Wrappers |-> NewWrapper]
    /\ thr \in [Threads -> {[pc |-> "called", tokens |-> tokens, result |-> NoResult] :
                               tokens \in ThreadTags}]
    /\ db = {}
    /\ cache = {}
    /\ autocreate = TRUE
    /\ last = NoRender

NextThreads ==
    \E t \in Threads :
        \/ StepReset(t)
        \/ StepSplit(t)
        \/ StepArgs(t)
        \/ StepSlug(t)
        \/ StepTpl(t)
        \/ StepCacheTime(t)
        \/ StepConstruct(t)
        \/ \E tokens \in ThreadTags : StepNextTag(t, tokens)

SpecThreads == InitThreads /\ [][NextThreads]_vars

---------------------------------------------------------------------------
(* The documented tag configurations, read off the tag alone. *)

\* {timeout}: an integer, or None
IsTimeout(tok) == tok = NONE \/ IsIntLiteral(tok)

\* a token wrapped in a pair of matching quotes
Wrapped(tok) == Len(tok) >= 2 /\ tok[1] = tok[Len(tok)] /\ tok[1] \in Quotes

\* the number (1..8, in the docstring's order) of the configuration the
\* arguments match, 0 when they match none
Configuration(args) ==
    CASE Len(args) = 0 -> 1
      [] Len(args) = 1 /\ IsTimeout(args[1]) -> 2
      [] Len(args) = 2 /\ args[1] = USING -> 3
      [] Len(args) = 3 /\ IsTimeout(args[1]) /\ args[2] = USING -> 4
      [] Len(args) = 1 /\ args[1] = EVALUATED -> 5
      [] Len(args) = 3 /\ args[1] = EVALUATED /\ args[2] = USING -> 6
      [] Len(args) = 2 /\ IsTimeout(args[1]) /\ args[2] = EVALUATED -> 7
      [] Len(args) = 4 /\ IsTimeout(args[1]) /\ args[2] = EVALUATED
                       /\ args[3] = USING -> 8
      [] OTHER -> 0

Documented(tokens) == Len(tokens) >= 2 /\ Configuration(ArgsOf(tokens)) # 0

\* a {block} or {tpl_name} as the tag writes it: a literal or a variable
Literal(tok) == [is_literal |-> Wrapped(tok),
                 text |-> IF Wrapped(tok) THEN SubSeq(tok, 2, Len(tok) - 1) ELSE tok]

\* the node a documented 'flatblock' tag describes
DescribedNode(tokens) ==
    LET args == ArgsOf(tokens)
        c == Configuration(args)
        block == Literal(tokens[2])
        tpl == Literal(args[Len(args)])
    IN [template_name |->
            IF c \notin {3, 4, 6, 8} THEN PyStr(DEFAULT_TEMPLATE)
            ELSE IF tpl.is_literal THEN PyStr(tpl.text)
            ELSE PyVariable(tpl.text),
        slug |-> PyStr(block.text),
        is_variable |-> PyBool(~block.is_literal),
        cache_time |->
            IF c \notin {2, 4, 7, 8} THEN PyInt(0)
            ELSE IF args[1] = NONE THEN PyStr(NONE)
            ELSE PyInt(IntOf(args[1])),
        with_template |-> PyBool(TRUE),
        evaluated |-> PyBool(c \in {5, 6, 7, 8})]

\* C1: every 'flatblock' tag that matches a documented configuration yields
\* the node the tag describes: cache_time the integer of {timeout} (0 without
\* one, the marker None for None), evaluated iff the keyword is there, the
\* template name {tpl_name} or the default, slug and template name literals
\* when wrapped in matching quotes and variables otherwise.
C1_NodeAsWritten ==
    \A t \in Threads :
        (thr[t].pc = "done" /\ thr[t].tokens[1] = TAG_FLATBLOCK
            /\ Documented(thr[t].tokens))
        => thr[t].result = NodeResult(DescribedNode(thr[t].tokens))

\* a lone quote character: first and last character at once
LoneQuote(tok) == Len(tok) = 1 /\ tok[1] \in Quotes

\* C1, apart from a {block} or {tpl_name} that is a lone quote character
C1_NodeAsWrittenUnlessLoneQuote ==
    \A t \in Threads :
        (thr[t].pc = "done" /\ thr[t].tokens[1] = TAG_FLATBLOCK
            /\ Documented(thr[t].tokens)
            /\ \A i \in 2..Len(thr[t].tokens) : ~LoneQuote(thr[t].tokens[i]))
        => thr[t].result = NodeResult(DescribedNode(thr[t].tokens))

\* C2: a tag that matches none of the documented configurations is rejected:
\* it yields no node.
C2_UndocumentedYieldsNoNode ==
    \A t \in Threads :
        (thr[t].pc = "done" /\ ~Documented(thr[t].tokens))
        => thr[t].result.kind # "node"

\* C2, with the exception it names: the rejection is a TemplateSyntaxError
C2_UndocumentedRejected ==
    \A t \in Threads :
        (thr[t].pc = "done" /\ ~Documented(thr[t].tokens))
        => thr[t].result = RaiseResult("TemplateSyntaxError")

---------------------------------------------------------------------------
(* The render that has just happened (last), read from outside: the slug   *)
(* and key it is about, and the row the cache or the table held for it.    *)

Rendered == last.kind = "render"

\* both the slug and the template name can be resolved in the context
Resolvable ==
    /\ IsTrue(last.node.is_variable) => last.node.slug.v \in DOMAIN last.context
    /\ last.node.template_name.t = "Variable"
          => last.node.template_name.v \in DOMAIN last.context

SlugOf ==
    IF IsTrue(last.node.is_variable) THEN last.context[last.node.slug.v]
    ELSE last.node.slug.v

KeyOf == CACHE_PREFIX \o SlugOf

\* the node caches: its cache_time is not 0
Caching == last.node.cache_time # PyInt(0)

\* the cache held an entry under the key when render began
WasCached == \E e \in last.pre_cache : e.key = KeyOf

CachedRow == (CHOOSE e \in last.pre_cache : e.key = KeyOf).value

\* the table holds a row with the slug, now that render is over
InTable == \E r \in db : r.slug = SlugOf

TableRow == CHOOSE r \in db : r.slug = SlugOf

\* the content the output shows: flatblock.content inside a rendered
\* template, the returned string otherwise
ShownContent ==
    IF last.out.kind = "rendering" THEN last.out.context[<<"flatblock">>].content
    ELSE last.out.value

\* what a row's content comes to under the node's evaluated flag
ContentOf(row) ==
    IF IsTrue(last.node.evaluated) THEN TemplateRender(row.content, last.context)
    ELSE row.content

DatastoreCalls == {"get", "get_or_create"}

Calls == {last.log[i] : i \in 1..Len(last.log)}

\* C3: a caching node whose key the cache holds reads no row, creates none,
\* does not write the cache, and produces its output from the cached row,
\* whatever the table holds by then.
C3_CacheHitServesCache ==
    (Rendered /\ Resolvable /\ Caching /\ WasCached)
    => /\ Calls \cap (DatastoreCalls \cup {"cache.set"}) = {}
       /\ db = last.pre_db
       /\ cache = last.pre_cache
       /\ last.out.kind # "raise"
       /\ ShownContent = ContentOf(CachedRow)
       /\ last.out.kind = "rendering"
             => last.out.context[<<"flatblock">>].slug = CachedRow.slug

\* a cache hit while the table's row was deleted, and one while it differs
C3_Witness ==
    /\ Rendered /\ Resolvable /\ Caching /\ WasCached
    /\ ~InTable
    /\ ShownContent # <<>>

\* C4: a node with cache_time 0 never reads and never writes the cache, and
\* its output is that of the row the table holds (nothing when it holds none).
C4_NoCachingAtZero ==
    (Rendered /\ Resolvable /\ ~Caching)
    => /\ Calls \cap {"cache.get", "cache.set"} = {}
       /\ cache = last.pre_cache
       /\ InTable => ShownContent = ContentOf(TableRow)
       /\ ~InTable => last.out = Returned(<<>>)

\* a node with cache_time 0 rendered while the cache holds a stale entry for
\* its slug
C4_Witness ==
    /\ Rendered /\ Resolvable /\ ~Caching
    /\ WasCached /\ InTable
    /\ CachedRow # TableRow
    /\ ContentOf(CachedRow) # ContentOf(TableRow)

\* the timeout the tag asks for: the cache's default when written None
AskedTimeout ==
    IF last.node.cache_time = PyStr(NONE) THEN DEFAULT_TIMEOUT
    ELSE last.node.cache_time

\* C5: after a caching node missed the cache and obtained a row, the cache
\* holds that row under the key, with the cache's default timeout for a tag
\* written None and the tag's seconds otherwise.
C5_MissFillsCache ==
    (Rendered /\ Resolvable /\ Caching /\ ~WasCached /\ InTable)
    => /\ [key |-> KeyOf, value |-> TableRow, timeout |-> AskedTimeout] \in cache
       /\ \A e \in cache : e.key = KeyOf => e.value = TableRow

C5_Witness ==
    /\ Rendered /\ Resolvable /\ Caching /\ ~WasCached /\ InTable
    /\ last.node.cache_time = PyInt(1)
    /\ TableRow \notin last.pre_db

C5_WitnessDefault ==
    /\ Rendered /\ Resolvable /\ Caching /\ ~WasCached /\ InTable
    /\ last.node.cache_time = PyStr(NONE)

\* C6: a render adds a row only for a literal slug, with the setting on, when
\* no row has the slug and the cache supplied none; the row has that slug and
\* the slug as content.  Otherwise the table is as it was.
C6_AutocreateOnlyLiteral ==
    Rendered
    => \/ db = last.pre_db
       \/ /\ Resolvable
          /\ ~IsTrue(last.node.is_variable)
          /\ autocreate
          /\ ~\E r \in last.pre_db : r.slug = SlugOf
          /\ ~(Caching /\ WasCached)
          /\ \E r \in db : /\ db = last.pre_db \cup {r}
                           /\ r.slug = SlugOf
                           /\ r.content = SlugOf

C6_Witness ==
    /\ Rendered
    /\ db # last.pre_db
    /\ last.pre_db # {}

\* the template a 'flatblock' tag names: {tpl_name} after 'using', looked up
\* in the context when unquoted, else the default
NamedTemplate ==
    LET args == ArgsOf(last.tokens)
        n == Len(args)
    IN IF n >= 2 /\ args[n - 1] = USING
       THEN (IF Literal(args[n]).is_literal THEN Literal(args[n]).text
             ELSE last.context[args[n]])
       ELSE DEFAULT_TEMPLATE

\* the row the render is served: the cached one, else the table's
Served == (Caching /\ WasCached) \/ InTable

ServedRow == IF Caching /\ WasCached THEN CachedRow ELSE TableRow

C7_WitnessTemplate ==
    /\ Rendered /\ Resolvable /\ Served
    /\ last.tokens[1] = TAG_FLATBLOCK
    /\ last.out.kind = "rendering"
    /\ last.out.template = <<"U">>

\* C8: a render with the evaluated flag leaves every row of the table as it
\* was, caches only a row as the table holds it, shows the stored strings as
\* raw_content / raw_header and the content evaluated once; served from the
\* cache, with the table's row equal to the cached one, it returns what a
\* render from the table returns.
C8_EvaluationLeavesStore ==
    (Rendered /\ IsTrue(last.node.evaluated))
    => /\ last.pre_db \subseteq db
       /\ \A e \in cache : e \in last.pre_cache \/ e.value \in db
       /\ (Resolvable /\ Served)
             => /\ ShownContent = TemplateRender(ServedRow.content, last.context)
                /\ last.out.kind = "rendering"
                      => LET fb == last.out.context[<<"flatblock">>]
                         IN /\ fb.raw_content = PyStr(ServedRow.content)
                            /\ fb.raw_header = PyStr(ServedRow.header)
                            /\ fb.header = TemplateRender(ServedRow.header, last.context)
                /\ (Caching /\ WasCached /\ InTable /\ CachedRow = TableRow)
                      => last.out = render(last.node, last.context, db, {}).out

\* an evaluated render served from the cache, of content whose value after one
\* evaluation still holds a variable tag
C8_Witness ==
    /\ Rendered /\ IsTrue(last.node.evaluated)
    /\ Resolvable /\ Caching /\ WasCached /\ InTable /\ CachedRow = TableRow
    /\ last.out.kind = "rendering"
    /\ ShownContent = <<"{{w}}">>
    /\ last.out.context[<<"flatblock">>].raw_content = PyStr(<<"{{v}}">>)

---------------------------------------------------------------------------
(* The node of a tag and the tag's own tokens. *)

\* what the tag's tokens alone come to: the result of compiling them on a
\* wrapper no other parse has touched
OwnResult(tokens) == CallResult(NewWrapper, tokens)

\* C9: the node returned for a tag is built only from that tag's own tokens,
\* whatever was parsed before it and whatever another thread parses meanwhile.
C9_NodeFromOwnTokens ==
    \A t \in Threads :
        (thr[t].pc = "done" /\ thr[t].result.kind = "node")
        => thr[t].result = OwnResult(thr[t].tokens)

\* C9 for one thread's parses alone: every finished parse, a raised one
\* included, ends as its own tokens say
C9_ResultFromOwnTokens ==
    \A t \in Threads :
        thr[t].pc = "done" => thr[t].result = OwnResult(thr[t].tokens)

====
